---- MODULE Spec2Model ----
(***************************************************************************)
(* Model of the terrain viewer of src/main.js (the NetCDF-capable program, *)
(* lines 134-805): the GridSource resolver (parseNetCDF, findVariable,     *)
(* reshapeElevationGrid), the terrain mesh builder (buildTerrainFromGrid), *)
(* the base plate builder (rebuildBase) and the event handlers that drive  *)
(* them.                                                                   *)
(*                                                                         *)
(* Numbers.  A JavaScript number is modelled as an exact rational          *)
(* [n |-> numerator, d |-> denominator] in lowest terms with d > 0, or as  *)
(* the non-finite value NaN == [n |-> 0, d |-> 0].  Rounding of IEEE       *)
(* doubles is not modelled: arithmetic is exact.                           *)
(*                                                                         *)
(* Arrays.  A JavaScript array a is a sequence s with a[k] = s[k + 1].     *)
(* Where the code tests Array.isArray, a value is wrapped as               *)
(* [arr |-> BOOLEAN, items |-> sequence].                                  *)
(***************************************************************************)
EXTENDS Integers, Sequences, FiniteSets, TLC

VARIABLES
  terrainMesh,          \* let terrainMesh (null: id = 0)
  baseMesh,             \* let baseMesh (null: id = 0)
  terrainGroup,         \* [children: set of mesh ids, scale: [x, y, z]]
  modelGroup,           \* [children: set of base plate ids] (terrainGroup is always a child)
  currentBaseThickness, \* let currentBaseThickness
  downloadDisabled,     \* downloadButton.disabled
  dom,                  \* values of the scale and thickness input elements
  loads,                \* the position or outcome of each load operation, in start order
  call,                 \* input of the resolver / builder function under study
  result                \* its outcome

vars == <<terrainMesh, baseMesh, terrainGroup, modelGroup, currentBaseThickness,
          downloadDisabled, dom, loads, call, result>>

sceneVars == <<terrainMesh, baseMesh, terrainGroup, modelGroup, currentBaseThickness,
               downloadDisabled, dom, loads>>

(***************************************************************************)
(* Bounds of the model.                                                    *)
(***************************************************************************)
MaxLoads == 2        \* load operations started in one run, the startup load included
MaxScale == 1        \* scale values offered by the scale controls: 1 .. MaxScale
MaxThickness == 1    \* thickness values offered by the thickness controls: 0 .. MaxThickness
MaxElev == 2         \* finite elevation samples: 0 .. MaxElev
MaxCount == 3        \* latCount, lonCount and declared dimension sizes: up to MaxCount
MaxData == 9         \* length of an elevation buffer: up to MaxData
MaxDims == 3         \* dimensions of an elevation variable: up to MaxDims
MaxVars == 3         \* variables of a dataset: up to MaxVars

(***************************************************************************)
(* JavaScript numbers as exact rationals.                                  *)
(***************************************************************************)
Abs(x) == IF x < 0 THEN -x ELSE x

RECURSIVE Gcd(_, _)
Gcd(a, b) == IF b = 0 THEN a ELSE Gcd(b, a % b)

\* the rational n/d (d # 0) in lowest terms
Q(n, d) ==
  LET g == Gcd(Abs(n), Abs(d))
      s == IF d < 0 THEN -1 ELSE 1
  IN  [n |-> (s * n) \div g, d |-> (s * d) \div g]

Num(k) == [n |-> k, d |-> 1]

NaN == [n |-> 0, d |-> 0]

\* Number.isFinite
IsFinite(x) == x.d > 0

\* The intermediate integers stay in range: sums and comparisons go through
\* the lowest common denominator, products cancel crosswise first.
Neg(a) == IF IsFinite(a) THEN [n |-> -a.n, d |-> a.d] ELSE NaN

Add(a, b) ==
  IF IsFinite(a) /\ IsFinite(b)
  THEN LET g == Gcd(a.d, b.d)
       IN  Q(a.n * (b.d \div g) + b.n * (a.d \div g), (a.d \div g) * b.d)
  ELSE NaN

Sub(a, b) == Add(a, Neg(b))

Mul(a, b) ==
  IF IsFinite(a) /\ IsFinite(b)
  THEN LET g == Gcd(Abs(a.n), b.d)
           h == Gcd(Abs(b.n), a.d)
       IN  Q((a.n \div g) * (b.n \div h), (a.d \div h) * (b.d \div g))
  ELSE NaN

\* a / b for b # 0
Div(a, b) == IF IsFinite(b) /\ b.n # 0 THEN Mul(a, Q(b.d, b.n)) ELSE NaN

\* a < b: false when either side is NaN
Less(a, b) ==
  /\ IsFinite(a) /\ IsFinite(b)
  /\ LET g == Gcd(a.d, b.d) IN a.n * (b.d \div g) < b.n * (a.d \div g)

\* a <= b: false when either side is NaN
LessEq(a, b) ==
  /\ IsFinite(a) /\ IsFinite(b)
  /\ LET g == Gcd(a.d, b.d) IN a.n * (b.d \div g) <= b.n * (a.d \div g)

\* Math.max, Math.min, Math.abs: NaN when an argument is NaN
MathMax(a, b) == IF IsFinite(a) /\ IsFinite(b) THEN (IF Less(a, b) THEN b ELSE a) ELSE NaN

MathMin(a, b) == IF IsFinite(a) /\ IsFinite(b) THEN (IF Less(b, a) THEN b ELSE a) ELSE NaN

MathAbs(a) == IF IsFinite(a) THEN [n |-> Abs(a.n), d |-> a.d] ELSE NaN

\* the 1e-6 floor of spans, elevation range and plate footprint
Epsilon == Q(1, 1000000)

\* the 0.3 of zScaleBase = 0.3 / elevRange
FIXED_VISUAL_SCALE == Q(3, 10)

\* F applied to the value of e, with e evaluated once
Let1(e, F(_)) == CHOOSE y \in {F(x) : x \in {e}} : TRUE

\* Array.isArray wrappers
Arr(s) == [arr |-> TRUE, items |-> s]

NotArr == [arr |-> FALSE, items |-> <<>>]

\* an array of arrays
ArrGrid(rows) == Arr([k \in 1..Len(rows) |-> Arr(rows[k])])

\* a value read past the end of an array (undefined): not finite, NaN in arithmetic
Undefined == [n |-> 0, d |-> -1]

(***************************************************************************)
(* GridSource resolver: findVariable, findElevationVariable,               *)
(* reshapeElevationGrid, parseNetCDF.                                      *)
(*                                                                         *)
(* A reader is [dimensions |-> sequence of [name, size],                   *)
(*              variables  |-> sequence of [name, dimensions, data]],      *)
(* the dimension table and variable list of the NetCDF file; a variable's  *)
(* dimensions are dimension names and its data is the flat buffer that     *)
(* getDataVariable returns.  A function that can throw returns a record    *)
(* with an error field: "" when it returned normally.                      *)
(***************************************************************************)
LAT_CANDIDATES == <<"lat", "latitude", "y", "nav_lat", "grid_latitude">>

LON_CANDIDATES == <<"lon", "longitude", "x", "nav_lon", "grid_longitude">>

ELEVATION_CANDIDATES == <<"elevation", "height", "depth", "z", "band1", "surface_height", "elev">>

\* String.prototype.toLowerCase on the names the model uses
ToLowerCase(s) ==
  CASE s = "LAT" -> "lat"
    [] s = "Lat" -> "lat"
    [] s = "LON" -> "lon"
    [] s = "Latitude" -> "latitude"
    [] s = "Y" -> "y"
    [] s = "X" -> "x"
    [] s = "Elevation" -> "elevation"
    [] OTHER -> s

SetMin(S) == CHOOSE x \in S : \A y \in S : x <= y

\* Array.prototype.includes
Includes(seq, x) == \E k \in 1..Len(seq) : seq[k] = x

\* Array.prototype.find, as the 1-based index of the first element that
\* satisfies P; 0 when find returns undefined
FindIndex(seq, P(_)) ==
  LET hits == {k \in 1..Len(seq) : P(seq[k])}
  IN  IF hits = {} THEN 0 ELSE SetMin(hits)

MapLower(seq) == [k \in 1..Len(seq) |-> ToLowerCase(seq[k])]

\* findVariable as written: the first variable, in dataset order, whose
\* lower-cased name is any of the candidates
FindVariable(reader, candidates) ==
  LET lowerCandidates == MapLower(candidates)
  IN  FindIndex(reader.variables, LAMBDA variable : Includes(lowerCandidates, ToLowerCase(variable.name)))

\* An entry of variable.dimensions is a string, an object with a string name
\* or a number (a dimension id, as netcdfjs lists them).
Str(s) == [typeof |-> "string", value |-> s]

Obj(s) == [typeof |-> "object", name |-> s]

Id(k) == [typeof |-> "number", value |-> k]

\* !dim: the empty string and the number 0 are falsy
Falsy(dim) ==
  \/ dim.typeof = "string" /\ dim.value = ""
  \/ dim.typeof = "number" /\ dim.value = 0

\* String(dim) for a dimension id
NumberToString(k) ==
  CASE k = 0 -> "0"
    [] k = 1 -> "1"
    [] k = 2 -> "2"
    [] k = 3 -> "3"
    [] OTHER -> "4"

ParseDimensionName(dim) ==
  IF Falsy(dim) THEN ""
  ELSE IF dim.typeof = "string" THEN dim.value
  ELSE IF dim.typeof = "object" THEN dim.name
  ELSE NumberToString(dim.value)

\* (variable.dimensions && variable.dimensions[0]) || variable.name
FirstDimensionOrName(variable) ==
  IF Len(variable.dimensions) > 0 /\ ~Falsy(variable.dimensions[1])
  THEN variable.dimensions[1]
  ELSE Str(variable.name)

MapParseDimensionName(dimensions) ==
  [k \in 1..Len(dimensions) |-> ParseDimensionName(dimensions[k])]

FindElevationVariable(reader, latDimName, lonDimName) ==
  LET lowerCandidates == MapLower(ELEVATION_CANDIDATES)
      variable == FindIndex(reader.variables,
                            LAMBDA v : Includes(lowerCandidates, ToLowerCase(v.name)))
  IN  IF variable # 0 THEN variable
      ELSE FindIndex(reader.variables,
                     LAMBDA v : LET dimNames == MapLower(MapParseDimensionName(v.dimensions))
                                IN  /\ Includes(dimNames, ToLowerCase(latDimName))
                                    /\ Includes(dimNames, ToLowerCase(lonDimName)))

\* reader.getDataVariable(name): the buffer of the first variable of that name
GetDataVariable(reader, name) ==
  reader.variables[FindIndex(reader.variables, LAMBDA v : v.name = name)].data

\* reader.dimensions.find((d) => d.name === name)?.size || 0
DimSize(reader, name) ==
  LET k == FindIndex(reader.dimensions, LAMBDA d : d.name = name)
  IN  IF k = 0 THEN 0 ELSE reader.dimensions[k].size

\* dimensionMap.get(name) of new Map(reader.dimensions.map(...)): the last
\* entry of that name wins; 0 stands for undefined (both are falsy)
DimensionMapGet(reader, name) ==
  LET hits == {k \in 1..Len(reader.dimensions) : reader.dimensions[k].name = name}
  IN  IF hits = {} THEN 0 ELSE reader.dimensions[CHOOSE k \in hits : \A h \in hits : h <= k].size

\* data[index] for a 0-based index
DataAt(data, index) == IF index >= 0 /\ index < Len(data) THEN data[index + 1] ELSE Undefined

\* Array.prototype.slice(0, end)
SliceTo(seq, end) == SubSeq(seq, 1, IF end < Len(seq) THEN end ELSE Len(seq))

\* dimSizes.reduce((acc, v) => acc * (v || 1), 1)
RECURSIVE SizeProduct(_)
SizeProduct(sizes) ==
  IF sizes = <<>> THEN 1
  ELSE (IF sizes[1] = 0 THEN 1 ELSE sizes[1]) * SizeProduct(Tail(sizes))

\* the leading loop without its dimSizes[0] === 1 test
RECURSIVE StripLeadingAnySize(_, _, _)
StripLeadingAnySize(st, latDimName, lonDimName) ==
  IF /\ Len(st.dimNames) > 2
     /\ st.dimNames[1] # latDimName
     /\ st.dimNames[1] # lonDimName
  THEN StripLeadingAnySize([dimNames |-> Tail(st.dimNames),
                            dimSizes |-> Tail(st.dimSizes),
                            data |-> SliceTo(st.data, SizeProduct(Tail(st.dimSizes)))],
                           latDimName, lonDimName)
  ELSE st

\* the loop that removes leading size-1 dimensions that are not lat / lon
RECURSIVE StripLeading(_, _, _)
StripLeading(st, latDimName, lonDimName) ==
  IF /\ Len(st.dimNames) > 2
     /\ st.dimSizes[1] = 1
     /\ st.dimNames[1] # latDimName
     /\ st.dimNames[1] # lonDimName
  THEN StripLeading([dimNames |-> Tail(st.dimNames),
                     dimSizes |-> Tail(st.dimSizes),
                     data |-> SliceTo(st.data, SizeProduct(Tail(st.dimSizes)))],
                    latDimName, lonDimName)
  ELSE st

\* the loop that removes trailing size-1 dimensions
RECURSIVE StripTrailing(_)
StripTrailing(st) ==
  IF Len(st.dimNames) > 2 /\ st.dimSizes[Len(st.dimSizes)] = 1
  THEN StripTrailing([st EXCEPT !.dimNames = SubSeq(st.dimNames, 1, Len(st.dimNames) - 1),
                                !.dimSizes = SubSeq(st.dimSizes, 1, Len(st.dimSizes) - 1)])
  ELSE st

\* the dimension list and buffer after both stripping loops
StrippedDims(reader, elevationVar, latDimName, lonDimName) ==
  LET dimNames == MapParseDimensionName(elevationVar.dimensions)
      dimSizes == [k \in 1..Len(dimNames) |-> DimSize(reader, dimNames[k])]
  IN  StripTrailing(StripLeading([dimNames |-> dimNames, dimSizes |-> dimSizes,
                                  data |-> GetDataVariable(reader, elevationVar.name)],
                                 latDimName, lonDimName))

NoGrid == <<>>

\* reshapeElevationGrid from the dimension-count check on; st is the
\* dimension list and buffer left by the stripping loops
ReshapeStripped(st, latDimName, lonDimName, latCount, lonCount) ==
  IF Len(st.dimNames) # 2 THEN [error |-> "notLatLonDimensions", grid |-> NoGrid]
  ELSE
  LET data == st.data
      firstName == st.dimNames[1]
      secondName == st.dimNames[2]
      firstSize == IF st.dimSizes[1] # 0 THEN st.dimSizes[1]
                   ELSE (IF firstName = latDimName THEN latCount ELSE lonCount)
      secondSize == IF st.dimSizes[2] # 0 THEN st.dimSizes[2]
                    ELSE (IF secondName = lonDimName THEN lonCount ELSE latCount)
      totalSize == firstSize * secondSize
      latNameLower == ToLowerCase(latDimName)
      lonNameLower == ToLowerCase(lonDimName)
      firstIsLat == \/ ToLowerCase(firstName) = latNameLower
                    \/ (firstSize = latCount /\ secondSize = lonCount)
      firstIsLon == \/ ToLowerCase(firstName) = lonNameLower
                    \/ (firstSize = lonCount /\ secondSize = latCount)
  IN  IF Len(data) < totalSize THEN [error |-> "dataTooShort", grid |-> NoGrid]
      ELSE IF firstIsLat /\ secondSize = lonCount
      THEN [error |-> "",
            grid |-> [j \in 1..latCount |->
                       [i \in 1..lonCount |-> DataAt(data, (j - 1) * lonCount + (i - 1))]]]
      ELSE IF firstIsLon /\ secondSize = latCount
      THEN [error |-> "",
            grid |-> [j \in 1..latCount |->
                       [i \in 1..lonCount |-> DataAt(data, (i - 1) * latCount + (j - 1))]]]
      ELSE [error |-> "dimensionOrder", grid |-> NoGrid]

ReshapeElevationGrid(reader, elevationVar, latDimName, lonDimName, latCount, lonCount) ==
  IF Len(elevationVar.dimensions) = 0 THEN [error |-> "noDimensionInfo", grid |-> NoGrid]
  ELSE Let1(StrippedDims(reader, elevationVar, latDimName, lonDimName),
            LAMBDA st : ReshapeStripped(st, latDimName, lonDimName, latCount, lonCount))

NoDataset == [lat |-> <<>>, lon |-> <<>>, elevation |-> <<>>]

ParseNetCDF(reader) ==
  LET latVar == FindVariable(reader, LAT_CANDIDATES)
      lonVar == FindVariable(reader, LON_CANDIDATES)
  IN  IF latVar = 0 \/ lonVar = 0 THEN [error |-> "noLatLonVariable", dataset |-> NoDataset]
      ELSE
      LET latV == reader.variables[latVar]
          lonV == reader.variables[lonVar]
          latData == GetDataVariable(reader, latV.name)
          lonData == GetDataVariable(reader, lonV.name)
      IN  IF Len(latData) < 2 \/ Len(lonData) < 2
          THEN [error |-> "latLonTooShort", dataset |-> NoDataset]
          ELSE
          LET latDimName == ParseDimensionName(FirstDimensionOrName(latV))
              lonDimName == ParseDimensionName(FirstDimensionOrName(lonV))
              latCount == IF DimensionMapGet(reader, latDimName) # 0
                          THEN DimensionMapGet(reader, latDimName) ELSE Len(latData)
              lonCount == IF DimensionMapGet(reader, lonDimName) # 0
                          THEN DimensionMapGet(reader, lonDimName) ELSE Len(lonData)
              elevVar == FindElevationVariable(reader, latDimName, lonDimName)
          IN  IF elevVar = 0 THEN [error |-> "noElevationVariable", dataset |-> NoDataset]
              ELSE
              Let1(ReshapeElevationGrid(reader, reader.variables[elevVar],
                                        latDimName, lonDimName, latCount, lonCount),
                   LAMBDA r : IF r.error # "" THEN [error |-> r.error, dataset |-> NoDataset]
                              ELSE [error |-> "",
                                    dataset |-> [lat |-> SliceTo(latData, Len(r.grid)),
                                                 lon |-> SliceTo(lonData, Len(r.grid[1])),
                                                 elevation |-> r.grid]])

(***************************************************************************)
(* Scene: terrain mesh builder and base plate builder.                     *)
(*                                                                         *)
(* The functions below take and return the world                           *)
(* [terrainMesh, baseMesh, terrainGroup, modelGroup, currentBaseThickness, *)
(*  downloadDisabled], the module-level state of main.js they mutate.      *)
(* A terrain mesh is [id, load, width, height, z, position]: the plane     *)
(* geometry's planar size, its vertex heights in vertex order and the      *)
(* mesh position; load names the load operation that built it.  A base     *)
(* plate is [id, width, depth, thickness, position]: its box geometry and  *)
(* the mesh position.                                                      *)
(***************************************************************************)
NullMesh == [id |-> 0]

Axes == {"x", "y", "z"}

Vec(x, y, z) == [x |-> x, y |-> y, z |-> z]

\* a fresh object: an identity no live object has
NewId(live) == SetMin({k \in 1..(Cardinality(live) + 1) : k \notin live})

FiniteItems(seq) == {seq[k] : k \in {h \in 1..Len(seq) : IsFinite(seq[h])}}

RatMin(S) == CHOOSE x \in S : \A y \in S : LessEq(x, y)

RatMax(S) == CHOOSE x \in S : \A y \in S : LessEq(y, x)

\* arrayMinMax: extremes of the finite entries, NaN when there is none
ArrayMinMax(values) ==
  LET finite == FiniteItems(values)
  IN  IF finite = {} THEN [min |-> NaN, max |-> NaN]
      ELSE [min |-> RatMin(finite), max |-> RatMax(finite)]

\* minimum / maximum of a vertex attribute as Box3 computes it with
\* Math.min / Math.max: NaN as soon as one entry is not a number
AttrMin(seq) == IF \E k \in 1..Len(seq) : ~IsFinite(seq[k]) THEN NaN ELSE RatMin(FiniteItems(seq))

AttrMax(seq) == IF \E k \in 1..Len(seq) : ~IsFinite(seq[k]) THEN NaN ELSE RatMax(FiniteItems(seq))

Half(a) == Div(a, Num(2))

\* geometry.boundingBox of the terrain's plane geometry: the plane is
\* centred on the origin, the heights are the z attribute
GeometryBox(mesh) ==
  [min |-> Vec(Neg(Half(mesh.width)), Neg(Half(mesh.height)), AttrMin(mesh.z)),
   max |-> Vec(Half(mesh.width), Half(mesh.height), AttrMax(mesh.z))]

VecFinite(v) == IsFinite(v.x) /\ IsFinite(v.y) /\ IsFinite(v.z)

NaNBox == [min |-> Vec(NaN, NaN, NaN), max |-> Vec(NaN, NaN, NaN)]

\* new THREE.Box3().setFromObject(terrainGroup): the geometry box of the one
\* child moved by the mesh position and scaled by the group's scale; one
\* NaN coordinate makes every coordinate NaN (0 * NaN in the matrix product)
Box3SetFromObject(group, mesh) ==
  CHOOSE box \in
    {IF ~(VecFinite(g.min) /\ VecFinite(g.max) /\ VecFinite(p)) THEN NaNBox
     ELSE LET lo == [a \in Axes |-> Mul(scale[a], Add(g.min[a], p[a]))]
              hi == [a \in Axes |-> Mul(scale[a], Add(g.max[a], p[a]))]
          IN  [min |-> [a \in Axes |-> MathMin(lo[a], hi[a])],
               max |-> [a \in Axes |-> MathMax(lo[a], hi[a])]] :
     g \in {GeometryBox(mesh)}, p \in {mesh.position}, scale \in {group.scale}} : TRUE

\* getScaleValue: Number(numberElem.value || rangeElem.value), 1 when not finite
GetScaleValue(d, axis) ==
  LET value == d.scaleNumber[axis]
  IN  IF IsFinite(value) THEN value ELSE Num(1)

\* getBaseThicknessValue
GetBaseThicknessValue(w, d) ==
  LET value == d.thicknessNumber
  IN  IF IsFinite(value) THEN value ELSE w.currentBaseThickness

\* clearModel without terrainGroup.remove(terrainMesh)
ClearModelKeepsTerrainChild(w) ==
  [w EXCEPT !.terrainMesh = NullMesh,
            !.modelGroup.children = IF w.baseMesh.id # 0 THEN @ \ {w.baseMesh.id} ELSE @,
            !.baseMesh = NullMesh,
            !.terrainGroup.scale = [a \in Axes |-> Num(1)],
            !.downloadDisabled = TRUE]

\* clearModel (lines 386-402)
ClearModel(w) ==
  [w EXCEPT !.terrainGroup.children = IF w.terrainMesh.id # 0 THEN @ \ {w.terrainMesh.id} ELSE @,
            !.terrainMesh = NullMesh,
            !.modelGroup.children = IF w.baseMesh.id # 0 THEN @ \ {w.baseMesh.id} ELSE @,
            !.baseMesh = NullMesh,
            !.terrainGroup.scale = [a \in Axes |-> Num(1)],
            !.downloadDisabled = TRUE]

\* rebuildBase placing the plate's centre, not its top face, a thickness
\* below the terrain's lowest point
RebuildBaseCentreBelow(w, thickness) ==
  IF w.terrainMesh.id = 0 \/ ~IsFinite(thickness) \/ LessEq(thickness, Num(0))
  THEN [w EXCEPT !.modelGroup.children = IF w.baseMesh.id # 0 THEN @ \ {w.baseMesh.id} ELSE @,
                 !.baseMesh = NullMesh]
  ELSE
  CHOOSE based \in {
      IF ~VecFinite(bbox.min) THEN w
      ELSE
      LET size == [a \in Axes |-> Sub(bbox.max[a], bbox.min[a])]
          center == [a \in Axes |-> Half(Add(bbox.min[a], bbox.max[a]))]
          id == IF w.baseMesh.id = 0 THEN NewId(w.modelGroup.children) ELSE w.baseMesh.id
      IN  [w EXCEPT !.baseMesh = [id |-> id, width |-> MathMax(size.x, Epsilon),
                                  depth |-> MathMax(size.y, Epsilon),
                                  thickness |-> thickness,
                                  position |-> Vec(center.x, center.y,
                                                   Sub(bbox.min.z, thickness))],
                    !.modelGroup.children = @ \cup {id}] :
      bbox \in {Box3SetFromObject(w.terrainGroup, w.terrainMesh)}} : TRUE

\* rebuildBase creating and adding a new Mesh on every call
RebuildBaseNewMesh(w, thickness) ==
  IF w.terrainMesh.id = 0 \/ ~IsFinite(thickness) \/ LessEq(thickness, Num(0))
  THEN [w EXCEPT !.modelGroup.children = IF w.baseMesh.id # 0 THEN @ \ {w.baseMesh.id} ELSE @,
                 !.baseMesh = NullMesh]
  ELSE
  CHOOSE based \in {
      IF ~VecFinite(bbox.min) THEN w
      ELSE
      LET size == [a \in Axes |-> Sub(bbox.max[a], bbox.min[a])]
          center == [a \in Axes |-> Half(Add(bbox.min[a], bbox.max[a]))]
          id == NewId(w.modelGroup.children)
      IN  [w EXCEPT !.baseMesh = [id |-> id, width |-> MathMax(size.x, Epsilon),
                                  depth |-> MathMax(size.y, Epsilon),
                                  thickness |-> thickness,
                                  position |-> Vec(center.x, center.y,
                                                   Sub(bbox.min.z, Half(thickness)))],
                    !.modelGroup.children = @ \cup {id}] :
      bbox \in {Box3SetFromObject(w.terrainGroup, w.terrainMesh)}} : TRUE

\* rebuildBase (lines 404-436)
RebuildBase(w, thickness) ==
  IF w.terrainMesh.id = 0 \/ ~IsFinite(thickness) \/ LessEq(thickness, Num(0))
  THEN [w EXCEPT !.modelGroup.children = IF w.baseMesh.id # 0 THEN @ \ {w.baseMesh.id} ELSE @,
                 !.baseMesh = NullMesh]
  ELSE
  CHOOSE based \in {
      IF ~VecFinite(bbox.min) THEN w
      ELSE
      LET size == [a \in Axes |-> Sub(bbox.max[a], bbox.min[a])]
          center == [a \in Axes |-> Half(Add(bbox.min[a], bbox.max[a]))]
          width == MathMax(size.x, Epsilon)
          depth == MathMax(size.y, Epsilon)
          topZ == bbox.min.z
          id == IF w.baseMesh.id = 0
                THEN NewId(w.modelGroup.children)
                ELSE w.baseMesh.id
      IN  [w EXCEPT !.baseMesh = [id |-> id, width |-> width, depth |-> depth,
                                  thickness |-> thickness,
                                  position |-> Vec(center.x, center.y, Sub(topZ, Half(thickness)))],
                    !.modelGroup.children = @ \cup {id}] :
      bbox \in {Box3SetFromObject(w.terrainGroup, w.terrainMesh)}} : TRUE

\* minElev and maxElev: the extremes of the finite samples, 0 when there is none
ElevationStats(lonLength, latLength, elevationGrid) ==
  LET finite == {value \in {elevationGrid[j].items[i] :
                                j \in 1..latLength, i \in 1..lonLength} : IsFinite(value)}
  IN  IF finite = {} THEN [min |-> Num(0), max |-> Num(0)]
      ELSE [min |-> RatMin(finite), max |-> RatMax(finite)]

\* zScaleBase = 0.3 / elevRange
ZScaleBase(minElev, maxElev) ==
  Div(FIXED_VISUAL_SCALE, MathMax(Sub(maxElev, minElev), Epsilon))

\* the loop over the vertices reading the grid column by column
VertexLoopColumnMajor(lonLength, latLength, elevationGrid, minElev, zScaleBase) ==
  [i \in 0..(lonLength * latLength - 1) |->
     LET iy == i % latLength
         ix == i \div latLength
         elevValue == elevationGrid[iy + 1].items[ix + 1]
     IN  Mul(Sub(elevValue, minElev), zScaleBase)]

\* the loop over the vertices
VertexLoop(lonLength, latLength, elevationGrid, minElev, zScaleBase) ==
  LET widthSegments == lonLength - 1
      vertexCount == lonLength * latLength
  IN  [i \in 0..(vertexCount - 1) |->
         LET ix == i % (widthSegments + 1)
             iy == i \div (widthSegments + 1)
             elevValue == elevationGrid[iy + 1].items[ix + 1]
         IN  Mul(Sub(elevValue, minElev), zScaleBase)]

\* the vertex heights buildTerrainFromGrid assigns, in vertex order
VertexHeights(lonLength, latLength, elevationGrid) ==
  CHOOSE heights \in
    UNION {{VertexLoop(lonLength, latLength, elevationGrid, stats.min, zScaleBase) :
              zScaleBase \in {ZScaleBase(stats.min, stats.max)}} :
           stats \in {ElevationStats(lonLength, latLength, elevationGrid)}} : TRUE

\* the checks buildTerrainFromGrid makes before it touches the scene: the
\* error it throws, "" when the grid is accepted; lat, lon, elevationGrid and
\* its rows are Array.isArray wrappers
GridError(lat, lon, elevationGrid) ==
  IF ~lat.arr \/ Len(lat.items) < 2 THEN "latTooShort"
  ELSE IF ~lon.arr \/ Len(lon.items) < 2 THEN "lonTooShort"
  ELSE IF ~elevationGrid.arr \/ Len(elevationGrid.items) # Len(lat.items) THEN "rowCount"
  ELSE IF \E k \in 1..Len(elevationGrid.items) :
            ~elevationGrid.items[k].arr \/ Len(elevationGrid.items[k].items) # Len(lon.items)
  THEN "rowLength"
  ELSE ""

\* buildTerrainFromGrid from clearModel() on, for an accepted grid
BuildTerrain(w, d, lat, lon, elevationGrid, load) ==
  LET latStats == ArrayMinMax(lat.items)
      lonStats == ArrayMinMax(lon.items)
      latSpan == MathMax(MathAbs(Sub(latStats.max, latStats.min)), Epsilon)
      lonSpan == MathMax(MathAbs(Sub(lonStats.max, lonStats.min)), Epsilon)
  IN  CHOOSE built \in UNION UNION {{{
        LET thicknessValue == GetBaseThicknessValue(added, d)
            based == RebuildBase([added EXCEPT !.currentBaseThickness = thicknessValue],
                                 thicknessValue)
        IN  [based EXCEPT !.downloadDisabled = FALSE] :
        added \in {
          LET offsetX == Half(Add(bbox.min.x, bbox.max.x))
              offsetY == Half(Add(bbox.min.y, bbox.max.y))
              offsetZ == bbox.min.z
              id == NewId(cleared.terrainGroup.children)
              mesh == [geometry EXCEPT !.id = id,
                                       !.position = Vec(Neg(offsetX), Neg(offsetY), Neg(offsetZ))]
          IN  [cleared EXCEPT !.terrainMesh = mesh,
                              !.terrainGroup.children = @ \cup {id},
                              !.terrainGroup.scale = [a \in Axes |-> GetScaleValue(d, a)]]}} :
        bbox \in {GeometryBox(geometry)}} :
        cleared \in {ClearModel(w)},
        geometry \in {
          LET heights == VertexHeights(Len(lon.items), Len(lat.items), elevationGrid.items)
          IN  [id |-> 0, load |-> load, width |-> lonSpan, height |-> latSpan,
               z |-> [k \in 1..(Len(lat.items) * Len(lon.items)) |-> heights[k - 1]],
               position |-> Vec(Num(0), Num(0), Num(0))]}} : TRUE

\* buildTerrainFromGrid calling clearModel() before its checks
BuildTerrainFromGridClearsFirst(w, d, lat, lon, elevationGrid, load) ==
  IF GridError(lat, lon, elevationGrid) # ""
  THEN [threw |-> GridError(lat, lon, elevationGrid), w |-> ClearModel(w)]
  ELSE [threw |-> "", w |-> BuildTerrain(w, d, lat, lon, elevationGrid, load)]

\* buildTerrainFromGrid: [threw, w], threw = "" when it returned normally
BuildTerrainFromGrid(w, d, lat, lon, elevationGrid, load) ==
  IF GridError(lat, lon, elevationGrid) # ""
  THEN [threw |-> GridError(lat, lon, elevationGrid), w |-> w]
  ELSE [threw |-> "", w |-> BuildTerrain(w, d, lat, lon, elevationGrid, load)]

\* applyScale without its rebuildBase call
ApplyScaleKeepsBase(w, d, axis, value) ==
  IF ~IsFinite(value) THEN w
  ELSE [w EXCEPT !.terrainGroup.scale[axis] = value,
                 !.currentBaseThickness = GetBaseThicknessValue(w, d)]

\* applyScale of setupScaleControl
ApplyScale(w, d, axis, value) ==
  IF ~IsFinite(value) THEN w
  ELSE CHOOSE based \in
         {RebuildBase(scaled, scaled.currentBaseThickness) :
          scaled \in {[w EXCEPT !.terrainGroup.scale[axis] = value,
                                !.currentBaseThickness = GetBaseThicknessValue(w, d)]}} : TRUE

\* applyThickness of setupBaseThicknessControl
ApplyThickness(w, value) ==
  IF ~IsFinite(value) \/ LessEq(value, Num(0)) THEN w
  ELSE CHOOSE based \in
         {RebuildBase(applied, value) :
          applied \in {[w EXCEPT !.currentBaseThickness = value]}} : TRUE

NoFile == [terrain |-> <<>>, base |-> NullMesh]

\* obj.geometry.clone() with applyMatrix4(obj.matrixWorld): the terrain's
\* vertex heights in world space
WorldHeights(group, mesh) ==
  [k \in 1..Len(mesh.z) |-> Mul(group.scale.z, Add(mesh.z[k], mesh.position.z))]

\* downloadSTL without its two refusals: whatever parts exist are exported
DownloadSTLEmitsAnyway(w) ==
  [alert |-> "",
   file |-> [terrain |-> IF w.terrainMesh.id = 0 THEN <<>>
                         ELSE WorldHeights(w.terrainGroup, w.terrainMesh),
             base |-> w.baseMesh],
   w |-> w]

\* downloadSTL refusing only when the terrain is missing
DownloadSTLWithoutPlate(w) ==
  IF w.terrainMesh.id = 0
  THEN [alert |-> "notLoaded", file |-> NoFile, w |-> w]
  ELSE [alert |-> "",
        file |-> [terrain |-> WorldHeights(w.terrainGroup, w.terrainMesh), base |-> w.baseMesh],
        w |-> w]

\* downloadSTL with the transforms applied to the live meshes, not to clones
DownloadSTLInPlace(w) ==
  IF w.terrainMesh.id = 0 \/ w.baseMesh.id = 0
  THEN [alert |-> "notLoaded", file |-> NoFile, w |-> w]
  ELSE [alert |-> "",
        file |-> [terrain |-> WorldHeights(w.terrainGroup, w.terrainMesh), base |-> w.baseMesh],
        w |-> [w EXCEPT !.terrainMesh.z = WorldHeights(w.terrainGroup, w.terrainMesh)]]

\* downloadSTL (lines 527-571): [alert, file, w]; the file is the merged
\* geometry, the world-space terrain heights and the plate's box
DownloadSTL(w) ==
  IF w.terrainMesh.id = 0 \/ w.baseMesh.id = 0
  THEN [alert |-> "notLoaded", file |-> NoFile, w |-> w]
  ELSE [alert |-> "",
        file |-> [terrain |-> WorldHeights(w.terrainGroup, w.terrainMesh), base |-> w.baseMesh],
        w |-> w]

\* value clamped to [min, max] as the number inputs' change handlers do
Clamp(value, min, max) ==
  LET low == IF Less(value, min) THEN min ELSE value
  IN  IF Less(max, low) THEN max ELSE low

(***************************************************************************)
(* Inputs of the scene: the payloads a sample fetch can deliver and the    *)
(* NetCDF files a user can choose.                                         *)
(***************************************************************************)
NumSeq(ks) == [k \in 1..Len(ks) |-> Num(ks[k])]

Row(ks) == Arr(NumSeq(ks))

SamplePayloads ==
  { \* a 2 x 2 terrain
    [lat |-> Row(<<0, 1>>), lon |-> Row(<<0, 2>>),
     elevation |-> Arr(<<Row(<<0, MaxElev>>), Row(<<MaxElev, 0>>)>>)],
    \* lat shorter than 2
    [lat |-> Row(<<0>>), lon |-> Row(<<0, 2>>), elevation |-> Arr(<<Row(<<0, 1>>)>>)],
    \* a row shorter than lon
    [lat |-> Row(<<0, 1>>), lon |-> Row(<<0, 2>>),
     elevation |-> Arr(<<Row(<<0, 1>>), Row(<<1>>)>>)],
    \* elevation is not an array
    [lat |-> Row(<<0, 1>>), lon |-> Row(<<0, 2>>), elevation |-> NotArr] }

Dim(name, size) == [name |-> name, size |-> size]

Var(name, dimensions, data) == [name |-> name, dimensions |-> dimensions, data |-> data]

\* dimensions given by name
Names(names) == [k \in 1..Len(names) |-> Str(names[k])]

NcFiles ==
  { \* elevation(time = 1, lat = 2, lon = 3), its dimensions given as objects
    [dimensions |-> <<Dim("time", 1), Dim("lat", 2), Dim("lon", 3)>>,
     variables |-> <<Var("lat", Names(<<"lat">>), NumSeq(<<0, 1>>)),
                     Var("lon", Names(<<"lon">>), NumSeq(<<0, 1, 2>>)),
                     Var("elevation", <<Obj("time"), Obj("lat"), Obj("lon")>>,
                         NumSeq(<<0, 1, 2, 2, 1, 0>>))>>],
    \* no latitude variable
    [dimensions |-> <<Dim("lat", 2), Dim("lon", 2)>>,
     variables |-> <<Var("lon", Names(<<"lon">>), NumSeq(<<0, 1>>)),
                     Var("elevation", Names(<<"lat", "lon">>), NumSeq(<<0, 1, 1, 0>>))>>],
    \* elevation(time = 2, lat, lon): the dimension order cannot be resolved
    [dimensions |-> <<Dim("time", 2), Dim("lat", 2), Dim("lon", 2)>>,
     variables |-> <<Var("lat", Names(<<"lat">>), NumSeq(<<0, 1>>)),
                     Var("lon", Names(<<"lon">>), NumSeq(<<0, 1>>)),
                     Var("elevation", Names(<<"time", "lat", "lon">>),
                         NumSeq(<<0, 1, 1, 0, 0, 1, 1, 0>>))>>],
    \* the lat dimension is declared with size 1: a one-row grid
    [dimensions |-> <<Dim("lat", 1), Dim("lon", 2)>>,
     variables |-> <<Var("lat", Names(<<"lat">>), NumSeq(<<0, 1>>)),
                     Var("lon", Names(<<"lon">>), NumSeq(<<0, 1>>)),
                     Var("elevation", Names(<<"lat", "lon">>), NumSeq(<<0, 1>>))>>],
    \* a fill value that is not a number
    [dimensions |-> <<Dim("lat", 2), Dim("lon", 2)>>,
     variables |-> <<Var("lat", Names(<<"lat">>), NumSeq(<<0, 1>>)),
                     Var("lon", Names(<<"lon">>), NumSeq(<<0, 1>>)),
                     Var("elevation", Names(<<"lat", "lon">>), <<Num(0), NaN, Num(1), Num(0)>>)>>],
    \* elevation(lat = 2, lon = 3), the dimensions given by id
    [dimensions |-> <<Dim("lat", 2), Dim("lon", 3)>>,
     variables |-> <<Var("lat", <<Id(0)>>, NumSeq(<<0, 1>>)),
                     Var("lon", <<Id(1)>>, NumSeq(<<0, 1, 2>>)),
                     Var("elevation", <<Id(0), Id(1)>>, NumSeq(<<0, 1, 2, 2, 1, 0>>))>>] }

(***************************************************************************)
(* The state machine of the page.                                          *)
(***************************************************************************)
World ==
  [terrainMesh |-> terrainMesh, baseMesh |-> baseMesh, terrainGroup |-> terrainGroup,
   modelGroup |-> modelGroup, currentBaseThickness |-> currentBaseThickness,
   downloadDisabled |-> downloadDisabled]

Install(w) ==
  /\ terrainMesh' = w.terrainMesh
  /\ baseMesh' = w.baseMesh
  /\ terrainGroup' = w.terrainGroup
  /\ modelGroup' = w.modelGroup
  /\ currentBaseThickness' = w.currentBaseThickness
  /\ downloadDisabled' = w.downloadDisabled

NotCalled == [fn |-> "none"]

\* the state once the module body of main.js has run: empty groups, the
\* inputs at their defaults (scale 1, thickness 5), the startup
\* loadSampleTerrain(false) waiting for its fetch
SceneInit ==
  /\ terrainMesh = NullMesh
  /\ baseMesh = NullMesh
  /\ terrainGroup = [children |-> {}, scale |-> [a \in Axes |-> Num(1)]]
  /\ modelGroup = [children |-> {}]
  /\ currentBaseThickness = Num(5)
  /\ downloadDisabled = TRUE
  /\ dom = [scaleRange |-> [a \in Axes |-> Num(1)], scaleNumber |-> [a \in Axes |-> Num(1)],
            thicknessRange |-> Num(5), thicknessNumber |-> Num(5)]
  /\ loads = <<"fetch">>

Init ==
  /\ SceneInit
  /\ call = NotCalled
  /\ result = NotCalled

\* the classes of errors a load can end with
ResolutionErrors == {"noLatLonVariable", "noElevationVariable", "noDimensionInfo",
                     "notLatLonDimensions", "dataTooShort", "dimensionOrder"}

StructuralErrors == {"latLonTooShort", "latTooShort", "lonTooShort", "rowCount", "rowLength"}

\* load i ends: "built", or how it failed: "resolution", "structural", or
\* "rejected" (the fetch failed or the sample is not three arrays)
Settle(i, error) ==
  loads' = [loads EXCEPT ![i] = IF error = "" THEN "built"
                                ELSE IF error \in ResolutionErrors THEN "resolution"
                                ELSE IF error \in StructuralErrors THEN "structural"
                                ELSE "rejected"]

\* loadSampleBtn click: loadSampleTerrain(true) runs up to its fetch
LoadSampleTerrainStart ==
  /\ Len(loads) < MaxLoads
  /\ loads' = Append(loads, "fetch")
  /\ UNCHANGED <<terrainMesh, baseMesh, terrainGroup, modelGroup, currentBaseThickness,
                 downloadDisabled, dom, call, result>>

\* the fetch of loadSampleTerrain settles: a response that is ok, or a
\* rejected fetch / a response that is not ok (throw new Error(`HTTP ...`))
LoadSampleTerrainFetched ==
  \E i \in 1..Len(loads), ok \in BOOLEAN :
    /\ loads[i] = "fetch"
    /\ IF ok THEN loads' = [loads EXCEPT ![i] = "json"] ELSE Settle(i, "http")
    /\ UNCHANGED <<terrainMesh, baseMesh, terrainGroup, modelGroup, currentBaseThickness,
                   downloadDisabled, dom, call, result>>

\* response.json() settles and loadSampleTerrain runs to its end
LoadSampleTerrainJson ==
  \E i \in 1..Len(loads), data \in SamplePayloads :
    /\ loads[i] = "json"
    /\ IF ~(data.lat.arr /\ data.lon.arr /\ data.elevation.arr)
       THEN Settle(i, "sampleFormat") /\ Install(World)
       ELSE \E b \in {BuildTerrainFromGrid(World, dom, data.lat, data.lon, data.elevation, i)} :
              Install(b.w) /\ Settle(i, b.threw)
    /\ UNCHANGED <<dom, call, result>>

\* fileInput change: loadNcFile(file) runs up to the await in parseNetCDF
LoadNcFileStart ==
  /\ Len(loads) < MaxLoads
  /\ loads' = Append(loads, "parse")
  /\ UNCHANGED <<terrainMesh, baseMesh, terrainGroup, modelGroup, currentBaseThickness,
                 downloadDisabled, dom, call, result>>

\* file.arrayBuffer() settles and loadNcFile runs to its end; the content of
\* the chosen file is drawn here
LoadNcFileParsed ==
  \E i \in 1..Len(loads), reader \in NcFiles :
    /\ loads[i] = "parse"
    /\ \E parsed \in {ParseNetCDF(reader)} :
         IF parsed.error # ""
         THEN Settle(i, parsed.error) /\ Install(World)
         ELSE \E b \in {BuildTerrainFromGrid(World, dom, Arr(parsed.dataset.lat),
                          Arr(parsed.dataset.lon), ArrGrid(parsed.dataset.elevation), i)} :
                Install(b.w) /\ Settle(i, b.threw)
    /\ UNCHANGED <<dom, call, result>>

\* "input" on a scale range element
ScaleRangeInput ==
  \E axis \in Axes, k \in 1..MaxScale :
    LET value == Num(k)
    IN  /\ dom' = [dom EXCEPT !.scaleRange[axis] = value, !.scaleNumber[axis] = value]
        /\ \E w \in {ApplyScale(World, dom', axis, value)} : Install(w)
        /\ UNCHANGED <<loads, call, result>>

\* "change" on a scale number element: text that is not a number, a number
\* below the minimum, a number in range; min and max are the handler's
\* defaults 0.1 and 10
ScaleNumberChange ==
  \E axis \in Axes, raw \in {NaN, Num(0), Num(MaxScale)} :
    LET value == Clamp(IF IsFinite(raw) THEN raw ELSE Num(1), Q(1, 10), Num(10))
    IN  /\ dom' = [dom EXCEPT !.scaleRange[axis] = value, !.scaleNumber[axis] = value]
        /\ \E w \in {ApplyScale(World, dom', axis, value)} : Install(w)
        /\ UNCHANGED <<loads, call, result>>

\* "input" on the thickness range element
ThicknessRangeInput ==
  \E k \in 0..MaxThickness :
    LET value == Num(k)
    IN  /\ dom' = [dom EXCEPT !.thicknessRange = value, !.thicknessNumber = value]
        /\ \E w \in {ApplyThickness(World, value)} : Install(w)
        /\ UNCHANGED <<loads, call, result>>

\* "change" on the thickness number element: text that is not a number, a
\* number in range, a number above the maximum; min and max are the handler's
\* defaults 0.1 and 50
ThicknessNumberChange ==
  \E raw \in {NaN, Num(MaxThickness), Num(51)} :
    LET value == Clamp(IF IsFinite(raw) THEN raw ELSE Num(5), Q(1, 10), Num(50))
    IN  /\ dom' = [dom EXCEPT !.thicknessRange = value, !.thicknessNumber = value]
        /\ \E w \in {ApplyThickness(World, value)} : Install(w)
        /\ UNCHANGED <<loads, call, result>>

Next ==
  \/ LoadSampleTerrainStart
  \/ LoadSampleTerrainFetched
  \/ LoadSampleTerrainJson
  \/ LoadNcFileStart
  \/ LoadNcFileParsed
  \/ ScaleRangeInput
  \/ ScaleNumberChange
  \/ ThicknessRangeInput
  \/ ThicknessNumberChange

Spec == Init /\ [][Next]_vars

(***************************************************************************)
(* reshapeElevationGrid on its own (specification SpecReshape).  A call    *)
(* names the elevation variable's dimensions, says which sizes the         *)
(* dimension table declares and gives latCount, lonCount and the length of *)
(* the buffer.  The latitude dimension is "lat", the longitude dimension   *)
(* "lon"; a declared lat / lon size is the count; the buffer's entries are *)
(* pairwise different.                                                     *)
(***************************************************************************)
DimensionNames == {"lat", "lon", "time", "y"}

DimensionLists ==
  {d \in UNION {[1..n -> DimensionNames] : n \in 1..MaxDims} :
     \A a, b \in DOMAIN d : a # b => d[a] # d[b]}

ReshapeCalls ==
  [fn : {"reshapeElevationGrid"}, dimensions : DimensionLists,
   latDeclared : BOOLEAN, lonDeclared : BOOLEAN, timeSize : 1..2, ySize : 1..2,
   latCount : 1..MaxCount, lonCount : 1..MaxCount, length : 0..MaxData]

Buffer(length) == [k \in 1..length |-> Num(10 + k)]

\* the reader of a call: reader.dimensions and the one elevation variable
ReaderOf(c) ==
  [dimensions |-> SelectSeq(<<Dim("time", c.timeSize), Dim("y", c.ySize),
                              Dim("lat", c.latCount), Dim("lon", c.lonCount)>>,
                            LAMBDA d : /\ d.name = "lat" => c.latDeclared
                                       /\ d.name = "lon" => c.lonDeclared),
   variables |-> <<Var("elevation", Names(c.dimensions), Buffer(c.length))>>]

ReshapeOf(c) ==
  ReshapeElevationGrid(ReaderOf(c), ReaderOf(c).variables[1], "lat", "lon",
                       c.latCount, c.lonCount)

InitReshape ==
  /\ SceneInit
  /\ call \in ReshapeCalls
  /\ result = NotCalled

ReshapeElevationGridCall ==
  /\ result.fn = "none"
  /\ \E r \in {ReshapeOf(call)} :
       result' = [fn |-> call.fn, error |-> r.error, grid |-> r.grid]
  /\ UNCHANGED <<call, terrainMesh, baseMesh, terrainGroup, modelGroup, currentBaseThickness,
                 downloadDisabled, dom, loads>>

NextReshape == ReshapeElevationGridCall

SpecReshape == InitReshape /\ [][NextReshape]_vars

(***************************************************************************)
(* findVariable on its own (specification SpecFind): a dataset is a list   *)
(* of variable names, each variable one-dimensional with two values.       *)
(***************************************************************************)
VariableNames == {"lat", "Latitude", "y", "lon", "X", "elevation"}

FindCalls ==
  [fn : {"findVariable"},
   names : UNION {[1..n -> VariableNames] : n \in 0..MaxVars},
   candidates : {LAT_CANDIDATES, LON_CANDIDATES}]

DatasetOf(c) ==
  [dimensions |-> <<>>,
   variables |-> [k \in 1..Len(c.names) |->
                    Var(c.names[k], Names(<<c.names[k]>>), NumSeq(<<0, 1>>))]]

InitFind ==
  /\ SceneInit
  /\ call \in FindCalls
  /\ result = NotCalled

\* findVariable(reader, candidates), and parseNetCDF on the same reader
FindVariableCall ==
  /\ result.fn = "none"
  /\ result' = [fn |-> call.fn,
                found |-> FindVariable(DatasetOf(call), call.candidates),
                error |-> ParseNetCDF(DatasetOf(call)).error]
  /\ UNCHANGED <<call, terrainMesh, baseMesh, terrainGroup, modelGroup, currentBaseThickness,
                 downloadDisabled, dom, loads>>

NextFind == FindVariableCall

SpecFind == InitFind /\ [][NextFind]_vars

(***************************************************************************)
(* buildTerrainFromGrid on its own (specification SpecHeights): 2 x 2      *)
(* grids of finite and non-finite elevation samples, built into the empty  *)
(* scene.                                                                  *)
(***************************************************************************)
Elevations == {NaN, Num(10)} \cup {Num(k) : k \in 0..MaxElev}

\* grids of 2 x 2 and of 2 x 3 samples with their lon arrays
HeightsCalls ==
  [fn : {"buildTerrainFromGrid"}, lon : {Row(<<0, 2>>)},
   elevation : [1..2 -> [1..2 -> Elevations]]]
  \cup
  [fn : {"buildTerrainFromGrid"}, lon : {Row(<<0, 1, 2>>)},
   elevation : [1..2 -> [1..3 -> {NaN, Num(0), Num(MaxElev)}]]]

InitHeights ==
  /\ SceneInit
  /\ call \in HeightsCalls
  /\ result = NotCalled

BuildTerrainFromGridCall ==
  /\ result.fn = "none"
  /\ \E b \in {BuildTerrainFromGrid(World, dom, Row(<<0, 1>>), call.lon,
                                    ArrGrid(call.elevation), 1)} :
       /\ Install(b.w)
       /\ result' = [fn |-> call.fn, threw |-> b.threw]
  /\ UNCHANGED <<call, dom, loads>>

NextHeights == BuildTerrainFromGridCall

SpecHeights == InitHeights /\ [][NextHeights]_vars

(***************************************************************************)
(* The model under its synchronous handlers (specification SpecModel):     *)
(* loads whose awaits have completed, scale events, thickness events and   *)
(* export requests.  result holds the outcome of the last export request.  *)
(***************************************************************************)
ModelPayloads ==
  [lat : {Row(<<0, 1>>)},
   lon : {Row(<<0, 2>>), Row(<<0, 0>>)},
   elevation : {Arr(<<Row(<<0, MaxElev>>), Row(<<MaxElev, 0>>)>>),
                Arr(<<Arr(<<Num(0), NaN>>), Row(<<1, 0>>)>>)}]

\* the last step of loadSampleTerrain for a payload of three arrays
LoadModel ==
  \E data \in ModelPayloads :
    /\ \E b \in {BuildTerrainFromGrid(World, dom, data.lat, data.lon, data.elevation, 1)} :
         Install(b.w)
    /\ UNCHANGED <<dom, loads, call, result>>

\* downloadButton click: downloadSTL() runs; whether the button is disabled
\* is left to the caller, the function has its own refusal
DownloadSTLClick ==
  /\ \E e \in {DownloadSTL(World)} :
       /\ Install(e.w)
       /\ result' = [fn |-> "downloadSTL", alert |-> e.alert, file |-> e.file]
  /\ UNCHANGED <<dom, loads, call>>

NextModel ==
  \/ LoadModel
  \/ ScaleRangeInput
  \/ ScaleNumberChange
  \/ ThicknessRangeInput
  \/ ThicknessNumberChange
  \/ DownloadSTLClick

SpecModel == Init /\ [][NextModel]_vars

(***************************************************************************)
(* parseNetCDF as a function of the reader (specification SpecParse).      *)
(***************************************************************************)
\* how the coordinate variables are declared: lat(lat) and lon(lon); lat(n)
\* on a dimension of its own; two-dimensional lat(lat, lon) and lon(lat, lon)
CoordinateKinds == {"own", "other", "twoDimensional"}

\* the data length of the coordinate variables may differ from the size of
\* the dimensions lat and lon
ParseCalls ==
  [fn : {"parseNetCDF"}, latSize : 1..MaxCount, lonSize : 1..MaxCount,
   latLength : 2..MaxCount, lonLength : 2..MaxCount,
   coordinates : CoordinateKinds, lonFirst : BOOLEAN, byId : BOOLEAN]

\* a dimension of the table <<n, lon, lat>> as variable.dimensions gives it:
\* its name or its index
DimRef(c, name) ==
  IF c.byId THEN Id(CASE name = "n" -> 0 [] name = "lon" -> 1 [] OTHER -> 2)
  ELSE Str(name)

\* the reader of a call
FileOf(c) ==
  [dimensions |-> <<Dim("n", c.latLength), Dim("lon", c.lonSize), Dim("lat", c.latSize)>>,
   variables |->
     <<Var("lat",
           CASE c.coordinates = "own" -> <<DimRef(c, "lat")>>
             [] c.coordinates = "other" -> <<DimRef(c, "n")>>
             [] OTHER -> <<DimRef(c, "lat"), DimRef(c, "lon")>>,
           IF c.coordinates = "twoDimensional" THEN Buffer(c.latSize * c.lonSize)
           ELSE Buffer(c.latLength)),
       Var("lon",
           IF c.coordinates = "twoDimensional" THEN <<DimRef(c, "lat"), DimRef(c, "lon")>>
           ELSE <<DimRef(c, "lon")>>,
           IF c.coordinates = "twoDimensional" THEN Buffer(c.latSize * c.lonSize)
           ELSE Buffer(c.lonLength)),
       Var("elevation",
           IF c.lonFirst THEN <<DimRef(c, "lon"), DimRef(c, "lat")>>
           ELSE <<DimRef(c, "lat"), DimRef(c, "lon")>>,
           Buffer(c.latSize * c.lonSize))>>]

InitParse ==
  /\ SceneInit
  /\ call \in ParseCalls
  /\ result = NotCalled

\* parseNetCDF(file)
ParseNetCDFCall ==
  /\ result.fn = "none"
  /\ \E parsed \in {ParseNetCDF(FileOf(call))} :
       result' = [fn |-> call.fn, error |-> parsed.error, dataset |-> parsed.dataset]
  /\ UNCHANGED <<call, terrainMesh, baseMesh, terrainGroup, modelGroup, currentBaseThickness,
                 downloadDisabled, dom, loads>>

NextParse == ParseNetCDFCall

SpecParse == InitParse /\ [][NextParse]_vars

(***************************************************************************)
(* The variant of the page that keeps terrain and plate in modelGroup and  *)
(* rebuilds the plate with updateBaseThickness (lines 807-1096;            *)
(* specification SpecVariant).  terrainGroup, currentBaseThickness and     *)
(* downloadDisabled do not exist in it and keep their initial values.      *)
(* modelGroup is [scale, orphans]: terrainMesh and baseMesh are its        *)
(* children whenever they are not null, orphans are the plates that        *)
(* loadTerrain replaced without removing them.  A mesh is its position and *)
(* its geometry's bounding box.                                            *)
(***************************************************************************)
MaxEvents == 3

\* +Infinity and -Infinity, the corners of an empty Box3
PosInfinity == [n |-> 1, d |-> 0]

NegInfinity == [n |-> -1, d |-> 0]

\* a + b and s * a for a finite or +Infinity, b finite, s positive
ExtAdd(a, b) == IF a = PosInfinity THEN PosInfinity ELSE Add(a, b)

ExtScale(s, a) == IF a = PosInfinity THEN PosInfinity ELSE Mul(s, a)

\* Math.min / Math.max over numbers that are finite or +Infinity, starting
\* from +Infinity / -Infinity
ExtMin(S) ==
  IF {x \in S : IsFinite(x)} = {} THEN PosInfinity ELSE RatMin({x \in S : IsFinite(x)})

ExtMax(S) ==
  IF S = {} THEN NegInfinity ELSE IF PosInfinity \in S THEN PosInfinity ELSE RatMax(S)

\* the world-space box of a child of modelGroup: the group's matrix is its
\* scale, the child's matrix its position
WorldBox(scale, mesh) ==
  [min |-> [a \in Axes |-> ExtScale(scale[a], ExtAdd(mesh.position[a], mesh.boxMin[a]))],
   max |-> [a \in Axes |-> ExtScale(scale[a], ExtAdd(mesh.position[a], mesh.boxMax[a]))]]

VariantWorld == [terrainMesh |-> terrainMesh, baseMesh |-> baseMesh, modelGroup |-> modelGroup]

\* modelGroup.children
Children(w) ==
  (IF w.terrainMesh.id # 0 THEN {w.terrainMesh} ELSE {})
    \cup (IF w.baseMesh.id # 0 THEN {w.baseMesh} ELSE {})
    \cup w.modelGroup.orphans

\* new THREE.Box3().setFromObject(modelGroup)
Box3SetFromGroup(w) ==
  CHOOSE bbox \in
    {[empty |-> boxes = {},
      min |-> [a \in Axes |-> ExtMin({b.min[a] : b \in boxes})],
      max |-> [a \in Axes |-> ExtMax({b.max[a] : b \in boxes})]] :
     boxes \in {{WorldBox(w.modelGroup.scale, m) : m \in Children(w)}}} : TRUE

\* the geometry and position createBaseMesh and updateBaseThickness give the
\* plate: BoxGeometry(size.x, size.y, thickness) at
\* (center.x, center.y, bbox.min.z - thickness / 2); getSize and getCenter
\* of an empty box are (0, 0, 0)
PlateUnder(w, thickness, id) ==
  CHOOSE mesh \in
    {LET sizeX == IF bbox.empty THEN Num(0) ELSE Sub(bbox.max.x, bbox.min.x)
         sizeY == IF bbox.empty THEN Num(0) ELSE Sub(bbox.max.y, bbox.min.y)
         centerX == IF bbox.empty THEN Num(0) ELSE Half(Add(bbox.min.x, bbox.max.x))
         centerY == IF bbox.empty THEN Num(0) ELSE Half(Add(bbox.min.y, bbox.max.y))
         topZ == bbox.min.z
     IN  [id |-> id, thickness |-> thickness,
          position |-> Vec(centerX, centerY, ExtAdd(topZ, Neg(Half(thickness)))),
          boxMin |-> Vec(Neg(Half(sizeX)), Neg(Half(sizeY)), Neg(Half(thickness))),
          boxMax |-> Vec(Half(sizeX), Half(sizeY), Half(thickness))] :
     bbox \in {Box3SetFromGroup(w)}} : TRUE

\* createBaseMesh(modelGroup, baseThickness) (lines 937-956)
CreateBaseMesh(w, baseThickness) ==
  PlateUnder(w, baseThickness, NewId({m.id : m \in Children(w)}))

\* updateBaseThickness (lines 958-980)
UpdateBaseThickness(w, thickness) ==
  IF w.baseMesh.id = 0
  THEN [w EXCEPT !.baseMesh = CreateBaseMesh(w, thickness)]
  ELSE [w EXCEPT !.baseMesh = PlateUnder(w, thickness, w.baseMesh.id)]

\* parseFloat(baseThicknessNumber.value) || 5
ThicknessOrDefault(value) == IF IsFinite(value) /\ value # Num(0) THEN value ELSE Num(5)

\* Math.min(...elevFlat), Math.max(...elevFlat) and the heights of the
\* variant's loadTerrain: elevRange = maxElev - minElev || 1
VariantHeights(elevation) ==
  CHOOSE heights \in
    {[i \in 1..4 |-> Mul(Sub(elevation[((i - 1) \div 2) + 1][((i - 1) % 2) + 1], stats.min),
                         Div(FIXED_VISUAL_SCALE,
                             IF stats.max = stats.min THEN Num(1)
                             ELSE Sub(stats.max, stats.min)))] :
     stats \in {[min |-> RatMin({elevation[j][k] : j \in 1..2, k \in 1..2}),
                 max |-> RatMax({elevation[j][k] : j \in 1..2, k \in 1..2})]}} : TRUE

\* loadTerrain after its fetch (lines 864-929): the terrain on a 1 x 1 plane,
\* moved so that its box is centred and starts at height 0, and a new plate;
\* a plate made before by updateBaseThickness stays in the group
LoadTerrain(w, d, elevation) ==
  CHOOSE loaded \in
    {[added EXCEPT !.baseMesh = CreateBaseMesh(added, ThicknessOrDefault(d.thicknessNumber))] :
     added \in
       {LET z == VariantHeights(elevation)
            terrain == [id |-> NewId({m.id : m \in Children(w)}),
                        position |-> Vec(Num(0), Num(0), Neg(AttrMin(z))),
                        boxMin |-> Vec(Q(-1, 2), Q(-1, 2), AttrMin(z)),
                        boxMax |-> Vec(Q(1, 2), Q(1, 2), AttrMax(z))]
        IN  [w EXCEPT !.terrainMesh = terrain,
                      !.modelGroup.orphans = Children(w),
                      !.baseMesh = NullMesh]}} : TRUE

\* the JSON grids a fetch of data/gebco_tile.json can deliver
VariantPayloads ==
  {<<NumSeq(<<0, MaxElev>>), NumSeq(<<MaxElev, 0>>)>>,
   <<NumSeq(<<1, 1>>), NumSeq(<<1, 1>>)>>}

InstallVariant(w) ==
  /\ terrainMesh' = w.terrainMesh
  /\ baseMesh' = w.baseMesh
  /\ modelGroup' = w.modelGroup
  /\ UNCHANGED <<terrainGroup, currentBaseThickness, downloadDisabled>>

\* the state once DOMContentLoaded has wired the controls and loadTerrain
\* waits for its fetch; call counts the events handled so far
InitVariant ==
  /\ terrainMesh = NullMesh
  /\ baseMesh = NullMesh
  /\ terrainGroup = [children |-> {}, scale |-> [a \in Axes |-> Num(1)]]
  /\ modelGroup = [scale |-> [a \in Axes |-> Num(1)], orphans |-> {}]
  /\ currentBaseThickness = Num(5)
  /\ downloadDisabled = TRUE
  /\ dom = [scaleRange |-> [a \in Axes |-> Num(1)], scaleNumber |-> [a \in Axes |-> Num(1)],
            thicknessRange |-> Num(5), thicknessNumber |-> Num(5)]
  /\ loads = <<"fetch">>
  /\ call = [fn |-> "events", count |-> 0]
  /\ result = NotCalled

Handled(fn) ==
  /\ call.count < MaxEvents
  /\ call' = [call EXCEPT !.count = @ + 1]
  /\ result' = [fn |-> fn]

\* loadTerrain resumes after its fetch
LoadTerrainFetched ==
  /\ loads = <<"fetch">>
  /\ \E elevation \in VariantPayloads :
       \E w \in {LoadTerrain(VariantWorld, dom, elevation)} : InstallVariant(w)
  /\ loads' = <<"built">>
  /\ UNCHANGED <<dom, call, result>>

\* the fetch fails: loadTerrain logs the error
LoadTerrainFailed ==
  /\ loads = <<"fetch">>
  /\ loads' = <<"rejected">>
  /\ UNCHANGED <<terrainMesh, baseMesh, terrainGroup, modelGroup, currentBaseThickness,
                 downloadDisabled, dom, call, result>>

\* onRangeChange of the variant's setupScaleControl
OnRangeChange ==
  \E axis \in Axes, k \in 1..(MaxScale + 1) :
    /\ Handled("onRangeChange")
    /\ dom' = [dom EXCEPT !.scaleRange[axis] = Num(k), !.scaleNumber[axis] = Num(k)]
    /\ \E w \in {UpdateBaseThickness([VariantWorld EXCEPT !.modelGroup.scale[axis] = Num(k)],
                                     ThicknessOrDefault(dom.thicknessNumber))} :
         InstallVariant(w)
    /\ UNCHANGED loads

\* onNumberChange of the variant's setupScaleControl: text that is not a
\* number counts as 1
OnNumberChange ==
  \E axis \in Axes, raw \in {NaN, Num(MaxScale + 1)} :
    LET v == IF IsFinite(raw) THEN raw ELSE Num(1)
    IN  /\ Handled("onNumberChange")
        /\ dom' = [dom EXCEPT !.scaleRange[axis] = v, !.scaleNumber[axis] = raw]
        /\ \E w \in {UpdateBaseThickness([VariantWorld EXCEPT !.modelGroup.scale[axis] = v],
                                         ThicknessOrDefault(dom.thicknessNumber))} :
             InstallVariant(w)
        /\ UNCHANGED loads

\* "input" on baseThicknessRange in the variant
BaseThicknessRangeInput ==
  \E v \in {Num(MaxThickness), Num(5)} :
    /\ Handled("baseThicknessRange")
    /\ dom' = [dom EXCEPT !.thicknessRange = v, !.thicknessNumber = v]
    /\ \E w \in {UpdateBaseThickness(VariantWorld, v)} : InstallVariant(w)
    /\ UNCHANGED loads

\* "change" on baseThicknessNumber in the variant: text that is not a
\* number counts as 5
BaseThicknessNumberChange ==
  \E raw \in {NaN, Num(MaxThickness)} :
    LET v == IF IsFinite(raw) THEN raw ELSE Num(5)
    IN  /\ Handled("baseThicknessNumber")
        /\ dom' = [dom EXCEPT !.thicknessRange = v, !.thicknessNumber = raw]
        /\ \E w \in {UpdateBaseThickness(VariantWorld, v)} : InstallVariant(w)
        /\ UNCHANGED loads

NextVariant ==
  \/ LoadTerrainFetched
  \/ LoadTerrainFailed
  \/ OnRangeChange
  \/ OnNumberChange
  \/ BaseThicknessRangeInput
  \/ BaseThicknessNumberChange

SpecVariant == InitVariant /\ [][NextVariant]_vars

(***************************************************************************)
(* Properties of the scene (specification Spec).                           *)
(***************************************************************************)
InFlight == {"fetch", "json", "parse"}

PlateTop == Add(baseMesh.position.z, Half(baseMesh.thickness))

\* C1: whenever a base plate exists, its top face (position along the height
\* axis + thickness / 2) equals the minimum height-axis coordinate of the
\* terrain's current, scaled bounding box, after any sequence of loads, scale
\* events and thickness events.
C1_PlateFlush ==
  baseMesh.id # 0 =>
    /\ terrainMesh.id # 0
    /\ PlateTop = Box3SetFromObject(terrainGroup, terrainMesh).min.z

\* a plate rebuilt by scale and thickness events: the height axis is scaled
\* and the thickness is not the default
C1_Witness ==
  /\ baseMesh.id # 0
  /\ terrainGroup.scale.z # Num(1)
  /\ terrainGroup.scale.x # terrainGroup.scale.y
  /\ baseMesh.thickness # Num(5)

\* C2: the steps of a load that ends with a resolution error or a structural
\* error (its start, the completion of its awaits, its failure) leave the
\* terrain mesh, the base plate, the groups with the terrain scale and the
\* download button as they were: it aborts before clearModel runs.
C2_FailedLoadLeavesScene ==
  [][(/\ loads' # loads
      /\ \A i \in 1..Len(loads) : loads'[i] # loads[i] => loads'[i] \notin {"built", "rejected"})
     => UNCHANGED <<terrainMesh, baseMesh, terrainGroup, modelGroup, downloadDisabled>>]_vars

\* a load has failed with a resolution or structural error and the model of
\* another load, with its plate, a scaled terrain and an enabled download
\* button, is in the scene
C2_Witness ==
  /\ \E i \in 1..Len(loads) : loads[i] \in {"resolution", "structural"}
  /\ terrainMesh.id # 0
  /\ baseMesh.id # 0
  /\ terrainGroup.scale.z # Num(1)
  /\ ~downloadDisabled

\* C3: once every load has finished, when the load started last has built its
\* model, the terrain in the scene is the one that load built.
C3_LastStartedWins ==
  (/\ Len(loads) >= 2
   /\ \A i \in 1..Len(loads) : loads[i] \notin InFlight
   /\ loads[Len(loads)] = "built")
  => terrainMesh.id # 0 /\ terrainMesh.load = Len(loads)

\* C4: the scene holds at most one terrain mesh (in terrainGroup) and at most
\* one base plate (in modelGroup), these are the current terrainMesh and
\* baseMesh and no older one, and a plate is present only with a terrain.
C4_OneTerrainOnePlate ==
  /\ Cardinality(terrainGroup.children) <= 1
  /\ Cardinality(modelGroup.children) <= 1
  /\ terrainGroup.children = IF terrainMesh.id = 0 THEN {} ELSE {terrainMesh.id}
  /\ modelGroup.children = IF baseMesh.id = 0 THEN {} ELSE {baseMesh.id}
  /\ modelGroup.children # {} => terrainGroup.children # {}

\* a second load has replaced the model of a first one: terrain and plate of
\* the second load are in the scene
C4_Witness ==
  /\ Len(loads) >= 2
  /\ loads[1] = "built"
  /\ terrainMesh.id # 0
  /\ terrainMesh.load = 2
  /\ baseMesh.id # 0

(***************************************************************************)
(* Properties of reshapeElevationGrid (specification SpecReshape).         *)
(***************************************************************************)
LatLon == {"lat", "lon"}

SizeIn(c, name) ==
  CASE name = "time" -> c.timeSize
    [] name = "y" -> c.ySize
    [] name = "lat" -> IF c.latDeclared THEN c.latCount ELSE 0
    [] name = "lon" -> IF c.lonDeclared THEN c.lonCount ELSE 0

\* grid[j][i] = data[j * lonCount + i]
RowMajorGrid(c) ==
  [j \in 1..c.latCount |->
    [i \in 1..c.lonCount |-> DataAt(Buffer(c.length), (j - 1) * c.lonCount + (i - 1))]]

\* grid[j][i] = data[i * latCount + j]
ColumnMajorGrid(c) ==
  [j \in 1..c.latCount |->
    [i \in 1..c.lonCount |-> DataAt(Buffer(c.length), (i - 1) * c.latCount + (j - 1))]]

\* C5: orientation is decided by name first: for every latCount and lonCount
\* (equal ones included) a buffer declared (lon, lat) yields
\* grid[j][i] = data[i * latCount + j] and one declared (lat, lon) yields
\* grid[j][i] = data[j * lonCount + i].
C5_NameDecidesOrientation ==
  (/\ result.fn = "reshapeElevationGrid"
   /\ call.latDeclared /\ call.lonDeclared
   /\ call.length >= call.latCount * call.lonCount)
  => /\ call.dimensions = <<"lat", "lon">>
          => result.error = "" /\ result.grid = RowMajorGrid(call)
     /\ call.dimensions = <<"lon", "lat">>
          => result.error = "" /\ result.grid = ColumnMajorGrid(call)

\* C6: two remaining dimensions of equal sizes, neither named as the latitude
\* or the longitude dimension, end in an error and no grid.
C6_AmbiguousIsError ==
  (/\ result.fn = "reshapeElevationGrid"
   /\ Len(call.dimensions) = 2
   /\ call.dimensions[1] \notin LatLon
   /\ call.dimensions[2] \notin LatLon
   /\ SizeIn(call, call.dimensions[1]) = SizeIn(call, call.dimensions[2]))
  => result.error # "" /\ result.grid = NoGrid

StrippedOf(c) == StrippedDims(ReaderOf(c), ReaderOf(c).variables[1], "lat", "lon")

\* the dimension lists C9 names: one dimension; a leading dimension of size
\* > 1 before lat and lon; a size-1 dimension between lat and lon; a leading
\* size-1 dimension in a two-dimension list
ListedShape(c) ==
  LET d == c.dimensions
  IN  \/ Len(d) = 1
      \/ Len(d) = 3 /\ d[1] \notin LatLon /\ SizeIn(c, d[1]) > 1 /\ {d[2], d[3]} = LatLon
      \/ Len(d) = 3 /\ d[2] \notin LatLon /\ SizeIn(c, d[2]) = 1 /\ {d[1], d[3]} = LatLon
      \/ Len(d) = 2 /\ d[1] \notin LatLon /\ SizeIn(c, d[1]) = 1 /\ d[2] \in LatLon

\* C9 as stated: every listed dimension list ends in an error and no grid.
C9_ListedShapesThrow ==
  (result.fn = "reshapeElevationGrid" /\ ListedShape(call))
  => result.error # "" /\ result.grid = NoGrid

\* C9, amended: a grid is returned only if exactly two dimensions remain after
\* the stripping loops, every list that leaves another number of dimensions
\* ends in an error and no grid, and the listed dimension lists end in an error
\* and no grid whenever latCount >= 2 and lonCount >= 2.
C9_GridOnlyFromTwoDimensions ==
  result.fn = "reshapeElevationGrid" =>
    /\ result.error = "" => Len(StrippedOf(call).dimNames) = 2
    /\ Len(StrippedOf(call).dimNames) # 2 => result.error # "" /\ result.grid = NoGrid
    /\ (ListedShape(call) /\ call.latCount >= 2 /\ call.lonCount >= 2)
         => result.error # "" /\ result.grid = NoGrid

\* (time = 2, lat, lon) with counts of at least 2 and a buffer that is long
\* enough has been refused, with three dimensions left after stripping
C9_Witness ==
  /\ result.fn = "reshapeElevationGrid"
  /\ call.dimensions = <<"time", "lat", "lon">>
  /\ call.timeSize = 2
  /\ call.latCount >= 2 /\ call.lonCount >= 2
  /\ call.length >= 2 * call.latCount * call.lonCount
  /\ Len(StrippedOf(call).dimNames) = 3
  /\ result.error = "notLatLonDimensions"

(***************************************************************************)
(* Property of findVariable (specification SpecFind).                      *)
(***************************************************************************)
\* the positions in the candidate list that some variable of the call matches
MatchedCandidates(c) ==
  {k \in 1..Len(c.candidates) :
     \E v \in 1..Len(c.names) : ToLowerCase(c.names[v]) = ToLowerCase(c.candidates[k])}

\* C7: findVariable returns the variable that matches the earliest matched
\* name of the candidate list, wherever it stands in reader.variables; when
\* no variable matches it returns none and the load fails with the
\* resolution error of parseNetCDF.
C7_CandidatePriority ==
  result.fn = "findVariable" =>
    IF MatchedCandidates(call) = {}
    THEN result.found = 0 /\ result.error = "noLatLonVariable"
    ELSE /\ result.found # 0
         /\ ToLowerCase(call.names[result.found])
              = ToLowerCase(call.candidates[SetMin(MatchedCandidates(call))])

(***************************************************************************)
(* Property of buildTerrainFromGrid (specification SpecHeights).           *)
(***************************************************************************)
Samples(c) == {c.elevation[j][i] : j \in 1..2, i \in 1..Len(c.lon.items)}

FiniteSamples(c) == {x \in Samples(c) : IsFinite(x)}

\* the elevation range of the call is above the epsilon floor
NotClamped(c) ==
  /\ FiniteSamples(c) # {}
  /\ Less(Epsilon, Sub(RatMax(FiniteSamples(c)), RatMin(FiniteSamples(c))))

\* C10: for an accepted grid whose elevation range is not clamped, every
\* vertex height lies in [0, FIXED_VISUAL_SCALE], the lowest is exactly 0 and
\* the highest exactly FIXED_VISUAL_SCALE.
C10_HeightsNormalised ==
  (result.fn = "buildTerrainFromGrid" /\ result.threw = "" /\ NotClamped(call))
  => LET z == terrainMesh.z
     IN  /\ \A k \in 1..Len(z) :
               IsFinite(z[k]) /\ LessEq(Num(0), z[k]) /\ LessEq(z[k], FIXED_VISUAL_SCALE)
         /\ \E k \in 1..Len(z) : z[k] = Num(0)
         /\ \E k \in 1..Len(z) : z[k] = FIXED_VISUAL_SCALE

(***************************************************************************)
(* Further properties of the scene (specification Spec).                   *)
(***************************************************************************)
\* C11: after a build, and under every terrain scale applied afterwards, the
\* terrain's bounding box with the placement offset applied has its
\* horizontal centre at (0, 0) and its minimum height at 0.
C11_TerrainRecentred ==
  terrainMesh.id # 0 =>
    LET bbox == Box3SetFromObject(terrainGroup, terrainMesh)
    IN  /\ Add(bbox.min.x, bbox.max.x) = Num(0)
        /\ Add(bbox.min.y, bbox.max.y) = Num(0)
        /\ bbox.min.z = Num(0)

\* the extents and centre of the terrain's current scaled bounding box
TerrainSize == 
  LET bbox == Box3SetFromObject(terrainGroup, terrainMesh)
  IN  [a \in Axes |-> Sub(bbox.max[a], bbox.min[a])]

TerrainCenter ==
  LET bbox == Box3SetFromObject(terrainGroup, terrainMesh)
  IN  [a \in Axes |-> Half(Add(bbox.min[a], bbox.max[a]))]

\* C12 as stated: whenever a plate exists, its X and Y extents equal those of
\* the terrain's current scaled bounding box and its horizontal centre is that
\* box's centre.
C12_PlateMatchesExtent ==
  baseMesh.id # 0 =>
    /\ baseMesh.width = TerrainSize.x
    /\ baseMesh.depth = TerrainSize.y
    /\ baseMesh.position.x = TerrainCenter.x
    /\ baseMesh.position.y = TerrainCenter.y

\* C12: whenever a plate exists, its X and Y extents are those of the
\* terrain's current scaled bounding box, raised to 1e-6 where the box is
\* narrower, and its horizontal centre is that box's centre.
C12_PlateFootprint ==
  baseMesh.id # 0 =>
    /\ baseMesh.width = MathMax(TerrainSize.x, Epsilon)
    /\ baseMesh.depth = MathMax(TerrainSize.y, Epsilon)
    /\ baseMesh.position.x = TerrainCenter.x
    /\ baseMesh.position.y = TerrainCenter.y

\* a plate under a terrain scaled away from 1 whose box is narrower than 1e-6
C12_Witness ==
  /\ baseMesh.id # 0
  /\ terrainGroup.scale.x # Num(1)
  /\ Less(TerrainSize.x, Epsilon)
  /\ baseMesh.width = Epsilon

\* C13: whenever the thickness requested last (the value the thickness
\* controls hold, which scale changes and loads read back) is non-positive
\* or non-finite, no base plate exists.
C13_NoPlateWithoutThickness ==
  (~IsFinite(dom.thicknessNumber) \/ LessEq(dom.thicknessNumber, Num(0))) => baseMesh.id = 0

\* the thicknesses rebuildBase is called with: not a number, zero, positive
RebuildThicknesses == {NaN, Num(0), Num(MaxThickness), Num(5)}

\* C14: rebuildBase is idempotent: called again with the same thickness and
\* an unchanged terrain transform it leaves the plate's footprint, depth and
\* position, the plate object and the scene's children as the first call
\* left them.
C14_RebuildBaseIdempotent ==
  \A thickness \in RebuildThicknesses :
    \A once \in {RebuildBase(World, thickness)} :
      /\ RebuildBase(once, thickness) = once
      /\ RebuildBase(RebuildBase(once, thickness), thickness) = once

\* a scaled terrain whose plate a repeated rebuildBase(5) rebuilds in place
C14_Witness ==
  /\ terrainMesh.id # 0
  /\ terrainGroup.scale.z # Num(1)
  /\ baseMesh.id # 0
  /\ RebuildBase(World, Num(5)).baseMesh = baseMesh
  /\ RebuildBase(World, Num(MaxThickness)).baseMesh # baseMesh

\* C15: an export requested while no terrain is loaded is refused with an
\* error report (the alert) and produces no output file.
C15_EmptyExportRefused ==
  [][DownloadSTLClick /\ terrainMesh.id = 0 =>
       result'.alert # "" /\ result'.file = NoFile]_vars

\* an export was requested with no terrain loaded and answered by the alert
C15_Witness ==
  /\ terrainMesh.id = 0
  /\ result = [fn |-> "downloadSTL", alert |-> "notLoaded", file |-> NoFile]

\* C16: downloadSTL, whether it emits a file or is refused, leaves
\* terrainMesh, baseMesh, their vertex data, the terrain scale and
\* currentBaseThickness as they were before the call.
C16_ExportLeavesModel ==
  [][DownloadSTLClick => UNCHANGED sceneVars]_vars

\* a file was emitted for a terrain whose world transform is not the identity
C16_Witness ==
  /\ result.fn = "downloadSTL"
  /\ result.alert = ""
  /\ terrainMesh.id # 0
  /\ terrainGroup.scale.z # Num(1)
  /\ result.file.terrain = WorldHeights(terrainGroup, terrainMesh)
  /\ result.file.terrain # terrainMesh.z

\* C20: the download button is enabled exactly when a terrain mesh is loaded,
\* while downloadSTL emits a file exactly when a terrain mesh and a base plate
\* both exist and otherwise answers with the alert and no file.
C20_ButtonAndExport ==
  /\ ~downloadDisabled <=> terrainMesh.id # 0
  /\ \A export \in {DownloadSTL(World)} :
       /\ export.alert = "" <=> (terrainMesh.id # 0 /\ baseMesh.id # 0)
       /\ export.alert # "" => export.file = NoFile
       /\ export.alert = "" => export.file.base = baseMesh

\* a terrain is loaded, the plate is suppressed by a thickness of 0, the
\* button is enabled and the export that was requested has been refused
C20_Witness ==
  /\ terrainMesh.id # 0
  /\ baseMesh.id = 0
  /\ currentBaseThickness = Num(0)
  /\ ~downloadDisabled
  /\ result = [fn |-> "downloadSTL", alert |-> "notLoaded", file |-> NoFile]

(***************************************************************************)
(* Vertex indexing (specification SpecHeights).                            *)
(***************************************************************************)
\* minElev and elevRange of a call, from its finite samples
MinElev(c) == IF FiniteSamples(c) = {} THEN Num(0) ELSE RatMin(FiniteSamples(c))

ElevRange(c) ==
  IF FiniteSamples(c) = {} THEN Epsilon
  ELSE MathMax(Sub(RatMax(FiniteSamples(c)), RatMin(FiniteSamples(c))), Epsilon)

\* C18: for an accepted grid, vertex i takes its height from
\* elevation[floor(i / lon.length)][i mod lon.length], both indices are in
\* range, and the height is (that elevation - minElev) * 0.3 / elevRange; for
\* elevation = [[0, 10], [10, 0]] the heights in vertex order are 0, 0.3, 0.3, 0.
C18_VertexIndexing ==
  (result.fn = "buildTerrainFromGrid" /\ result.threw = "")
  => LET lonLength == Len(call.lon.items)
         latLength == 2
         z == terrainMesh.z
     IN  /\ Len(z) = latLength * lonLength
         /\ \A i \in 0..(latLength * lonLength - 1) :
              LET row == i \div lonLength
                  col == i % lonLength
              IN  /\ row + 1 \in DOMAIN call.elevation
                  /\ col + 1 \in DOMAIN call.elevation[row + 1]
                  /\ z[i + 1] = Div(Mul(Sub(call.elevation[row + 1][col + 1], MinElev(call)),
                                        FIXED_VISUAL_SCALE),
                                    ElevRange(call))
         /\ call.elevation = <<NumSeq(<<0, 10>>), NumSeq(<<10, 0>>)>>
              => z = <<Num(0), Q(3, 10), Q(3, 10), Num(0)>>

\* the grid [[0, 10], [10, 0]] has been built with heights 0, 0.3, 0.3, 0
C18_Witness ==
  /\ result.fn = "buildTerrainFromGrid"
  /\ result.threw = ""
  /\ call.elevation = <<NumSeq(<<0, 10>>), NumSeq(<<10, 0>>)>>
  /\ terrainMesh.z = <<Num(0), Q(3, 10), Q(3, 10), Num(0)>>

(***************************************************************************)
(* The result of parseNetCDF (specification SpecParse).                    *)
(***************************************************************************)
IsPrefix(s, t) == Len(s) <= Len(t) /\ s = SubSeq(t, 1, Len(s))

\* C19: whenever parseNetCDF returns without error, its result has as many
\* elevation rows as lat entries, every row has as many entries as lon, and
\* lat and lon are prefixes of the data of the coordinate variables.
C19_CanonicalGrid ==
  (result.fn = "parseNetCDF" /\ result.error = "")
  => LET grid == result.dataset
     IN  /\ Len(grid.elevation) = Len(grid.lat)
         /\ \A j \in 1..Len(grid.elevation) : Len(grid.elevation[j]) = Len(grid.lon)
         /\ IsPrefix(grid.lat, FileOf(call).variables[1].data)
         /\ IsPrefix(grid.lon, FileOf(call).variables[2].data)

(***************************************************************************)
(* The plate of the variant (specification SpecVariant).                   *)
(***************************************************************************)
\* the plate's and the terrain's boxes in world space
PlateBox == WorldBox(modelGroup.scale, baseMesh)

TerrainBox == WorldBox(modelGroup.scale, terrainMesh)

\* C17: in the variant, once terrain and plate exist and whatever scale and
\* thickness events have been handled, the plate's top face is at the
\* terrain's lowest world Z, the plate's footprint is the terrain's, and
\* updateBaseThickness called again with the plate's thickness leaves the
\* plate where it is.
C17_VariantPlateFlush ==
  (terrainMesh.id # 0 /\ baseMesh.id # 0)
  => /\ PlateBox.max.z = TerrainBox.min.z
     /\ PlateBox.min.x = TerrainBox.min.x /\ PlateBox.max.x = TerrainBox.max.x
     /\ PlateBox.min.y = TerrainBox.min.y /\ PlateBox.max.y = TerrainBox.max.y
     /\ UpdateBaseThickness(VariantWorld, baseMesh.thickness).baseMesh = baseMesh

====
